---------------------------- MODULE Spec2Model ----------------------------
(***************************************************************************)
(* A model of create_rnn.py: the dataset builder (differencing, split,     *)
(* min-max scaling, windowing), the recurrent regressor                    *)
(* CoronaVirusPredictor and the training loop train_model.                 *)
(*                                                                         *)
(* Numbers.  The series are integer sequences.  Scaled values are exact    *)
(* rationals [num, den]; float64 rounding is outside the model.  The       *)
(* network's tensors are abstracted to one hidden unit per layer over the  *)
(* finite ring 0..Q-1: what is kept is which values every result is        *)
(* computed from (parameters, batch, recurrent memory, dropout mask).      *)
(***************************************************************************)
EXTENDS Integers, Sequences, FiniteSets, TLC

VARIABLES
    \* ---- dataset builder (lines 38-67)
    cumulative,      \* daily_cases as assigned at line 38 (cumulative counts)
    daily_cases,     \* daily_cases as re-assigned at line 46 (daily counts)
    test_data_size,  \* line 56
    train_data,      \* lines 57, 66
    test_data,       \* lines 58, 67
    scaler,          \* lines 64-65: "unfitted" or the fitted attributes
    pcB,             \* position of the script in lines 46-67
    \* ---- create_sequences (lines 71-79)
    data, seq_length, xs, ys, pcS,
    \* ---- CoronaVirusPredictor (lines 96-130)
    hidden,          \* self.hidden: << >> while the attribute does not exist, else <<h, c>>
    params,          \* the parameters of self.lstm and self.linear
    training,        \* nn.Module.training
    rng,             \* the state of torch's global generator (lines 24-26)
    sequences,       \* forward's argument at its latest call
    y_pred,          \* forward's latest result (line 148: y_pred)
    call,            \* the latest call on the model and how it ended
    ncalls,          \* the number of calls made on the model object
    first_out,       \* the first output of reset + forward on an all-zero batch,
                     \* and the number of such calls (up to 2)
    first_out_eval,  \* the same for the calls in evaluation mode
    \* ---- train_model (lines 134-163) and the globals it reads
    X_train, y_train, X_test, y_test,                               \* lines 83-88
    arg_train_data, arg_train_labels, arg_test_data, arg_test_labels, \* lines 136-139
    num_epochs, train_hist, test_hist, t, loss, y_test_pred, test_loss,
    grad,            \* the .grad of the parameters
    optimiser,       \* Adam's state
    grad_enabled,    \* FALSE inside "with torch.no_grad()"
    params0,         \* the parameters when train_model was called
    log,             \* the steps train_model has executed, in order
    pc               \* position in train_model

varsB == <<cumulative, daily_cases, test_data_size, train_data, test_data, scaler, pcB>>
varsS == <<data, seq_length, xs, ys, pcS>>
varsM == <<hidden, params, training, rng, sequences, y_pred, call, ncalls,
           first_out, first_out_eval>>
varsT == <<X_train, y_train, X_test, y_test,
           arg_train_data, arg_train_labels, arg_test_data, arg_test_labels,
           num_epochs, train_hist, test_hist, t, loss, y_test_pred, test_loss,
           grad, optimiser, grad_enabled, params0, log, pc>>
varsT_but_pc == <<X_train, y_train, X_test, y_test,
                  arg_train_data, arg_train_labels, arg_test_data, arg_test_labels,
                  num_epochs, train_hist, test_hist, t, loss, y_test_pred, test_loss,
                  grad, optimiser, grad_enabled, params0, log>>
vars == <<varsB, varsS, varsM, varsT>>

----------------------------------------------------------------------------
(* The parts of the script a specification does not run *)

IdleB ==
    /\ cumulative = << >> /\ daily_cases = << >> /\ test_data_size = 1
    /\ train_data = << >> /\ test_data = << >> /\ scaler = "unfitted" /\ pcB = "idle"

IdleS ==
    /\ data = << >> /\ seq_length = 0 /\ xs = << >> /\ ys = << >> /\ pcS = "idle"

\* no output recorded yet
NoOutput == [n |-> 0, y |-> << >>]
\* an output recorded: the first one is kept, the calls are counted up to 2
Recorded(f, y) == [n |-> IF f.n = 0 THEN 1 ELSE 2, y |-> IF f.n = 0 THEN y ELSE f.y]

IdleCalls ==
    /\ sequences = << >> /\ y_pred = << >>
    /\ call = [op |-> "init", after_reset |-> FALSE, raised |-> FALSE]
    /\ ncalls = 0
    /\ first_out = NoOutput /\ first_out_eval = NoOutput

IdleM ==
    /\ hidden = << >> /\ params = << >> /\ training = TRUE /\ rng = 0
    /\ IdleCalls

IdleT ==
    /\ X_train = << >> /\ y_train = << >> /\ X_test = << >> /\ y_test = << >>
    /\ arg_train_data = << >> /\ arg_train_labels = << >>
    /\ arg_test_data = << >> /\ arg_test_labels = << >>
    /\ num_epochs = 0 /\ train_hist = << >> /\ test_hist = << >> /\ t = -1
    /\ loss = << >> /\ y_test_pred = << >> /\ test_loss = << >>
    /\ grad = 0 /\ optimiser = << >> /\ grad_enabled = TRUE
    /\ params0 = << >> /\ log = << >> /\ pc = "idle"

----------------------------------------------------------------------------
(* Bounds of the model *)

MaxLen == 5
MaxVal == 2
MaxTestSize == 2
MaxSeqLen == 3

Values == 0..MaxVal
RECURSIVE SeqsUpTo(_, _)
SeqsUpTo(S, n) ==
    IF n = 0 THEN {<< >>}
    ELSE LET shorter == SeqsUpTo(S, n - 1)
         IN  shorter \cup {Append(s, v) : s \in {q \in shorter : Len(q) = n - 1}, v \in S}

Max2(a, b) == IF a >= b THEN a ELSE b

----------------------------------------------------------------------------
(* Exact rationals: the values MinMaxScaler computes *)

Rat(n, d) == [num |-> n, den |-> d]
RatOfInt(x) == Rat(x, 1)
RatMul(a, b) == Rat(a.num * b.num, a.den * b.den)
RatAdd(a, b) == Rat(a.num * b.den + b.num * a.den, a.den * b.den)
RatNeg(a) == Rat(-a.num, a.den)
RatInv(x) == Rat(1, x)
\* denominators are positive throughout
RatEq(a, b) == a.num * b.den = b.num * a.den
RatLeq(a, b) == a.num * b.den <= b.num * a.den

----------------------------------------------------------------------------
(* Differencing, line 46: daily_cases.diff().fillna(daily_cases[0]).astype(np.int64) *)

NaN == [isnan |-> TRUE, val |-> 0]
Float(x) == [isnan |-> FALSE, val |-> x]

\* diff() that clamps a decrease to 0
diff_clamped(s) ==
    [i \in 1..Len(s) |-> IF i = 1 THEN NaN ELSE Float(Max2(s[i] - s[i - 1], 0))]

\* Series.diff(): the first element has no predecessor and becomes NaN
diff(s) == [i \in 1..Len(s) |-> IF i = 1 THEN NaN ELSE Float(s[i] - s[i - 1])]

\* fillna(0): the first daily value is lost
fillna_zero(s, v) == [i \in 1..Len(s) |-> IF s[i].isnan THEN Float(0) ELSE s[i]]

\* Series.fillna(v): every NaN is replaced by v
fillna(s, v) == [i \in 1..Len(s) |-> IF s[i].isnan THEN Float(v) ELSE s[i]]

\* Series.astype(np.int64) of integral floats
astype_int64(s) == [i \in 1..Len(s) |-> s[i].val]

\* daily_cases[0] raises on an empty series
Differencing ==
    /\ pcB = "diff"
    /\ IF Len(cumulative) = 0
       THEN /\ pcB' = "error"
            /\ UNCHANGED daily_cases
       ELSE /\ daily_cases' = astype_int64(fillna(diff(cumulative), cumulative[1]))
            /\ pcB' = "split"
    /\ UNCHANGED <<cumulative, test_data_size, train_data, test_data, scaler>>
    /\ UNCHANGED <<varsS, varsM, varsT>>

----------------------------------------------------------------------------
(* Split, lines 56-58: s[:-k] and s[-k:] for k > 0 *)

SliceHead(s, k) == SubSeq(s, 1, Max2(Len(s) - k, 0))
SliceTail(s, k) == SubSeq(s, Max2(Len(s) - k, 0) + 1, Len(s))

Split ==
    /\ pcB = "split"
    /\ train_data' = SliceHead(daily_cases, test_data_size)
    /\ test_data' = SliceTail(daily_cases, test_data_size)
    /\ pcB' = "fit"
    /\ UNCHANGED <<cumulative, daily_cases, test_data_size, scaler>>
    /\ UNCHANGED <<varsS, varsM, varsT>>

----------------------------------------------------------------------------
(* MinMaxScaler, lines 64-67 (feature_range (0, 1), the default) *)

SeqMin(s) == CHOOSE m \in {s[i] : i \in 1..Len(s)} : \A i \in 1..Len(s) : m <= s[i]
SeqMax(s) == CHOOSE m \in {s[i] : i \in 1..Len(s)} : \A i \in 1..Len(s) : m >= s[i]

\* sklearn's _handle_zeros_in_scale: a zero range is replaced by 1
handle_zeros_in_scale(r) == IF r = 0 THEN 1 ELSE r

\* MinMaxScaler.fit: scale_ = 1 / range, min_ = 0 - data_min * scale_
fit(X) ==
    LET lo == SeqMin(X)
        hi == SeqMax(X)
        scale == RatInv(handle_zeros_in_scale(hi - lo))
    IN  [data_min |-> lo, data_max |-> hi, data_range |-> hi - lo,
         scale_ |-> scale, min_ |-> RatNeg(RatMul(RatOfInt(lo), scale))]

\* MinMaxScaler.transform: X * scale_ + min_
transform(sc, X) ==
    [i \in 1..Len(X) |-> RatAdd(RatMul(RatOfInt(X[i]), sc.scale_), sc.min_)]

\* the scaler fitted on the whole series instead of the training split
FitScalerOnAll ==
    /\ pcB = "fit"
    /\ IF Len(train_data) = 0
       THEN /\ pcB' = "error"
            /\ UNCHANGED scaler
       ELSE /\ scaler' = fit(daily_cases)
            /\ pcB' = "transform_train"
    /\ UNCHANGED <<cumulative, daily_cases, test_data_size, train_data, test_data>>
    /\ UNCHANGED <<varsS, varsM, varsT>>

\* line 65; fit raises ValueError on an array of 0 samples
FitScaler ==
    /\ pcB = "fit"
    /\ IF Len(train_data) = 0
       THEN /\ pcB' = "error"
            /\ UNCHANGED scaler
       ELSE /\ scaler' = fit(train_data)
            /\ pcB' = "transform_train"
    /\ UNCHANGED <<cumulative, daily_cases, test_data_size, train_data, test_data>>
    /\ UNCHANGED <<varsS, varsM, varsT>>

\* line 66
TransformTrain ==
    /\ pcB = "transform_train"
    /\ train_data' = transform(scaler, train_data)
    /\ pcB' = "transform_test"
    /\ UNCHANGED <<cumulative, daily_cases, test_data_size, test_data, scaler>>
    /\ UNCHANGED <<varsS, varsM, varsT>>

\* line 67
TransformTest ==
    /\ pcB = "transform_test"
    /\ test_data' = transform(scaler, test_data)
    /\ pcB' = "done"
    /\ UNCHANGED <<cumulative, daily_cases, test_data_size, train_data, scaler>>
    /\ UNCHANGED <<varsS, varsM, varsT>>

InitBuilder ==
    /\ cumulative \in SeqsUpTo(Values, MaxLen)
    /\ daily_cases = << >>
    /\ test_data_size \in 1..MaxTestSize
    /\ train_data = << >>
    /\ test_data = << >>
    /\ scaler = "unfitted"
    /\ pcB = "diff"
    /\ IdleS /\ IdleM /\ IdleT

NextBuilder ==
    \/ Differencing
    \/ Split
    \/ FitScaler
    \/ TransformTrain
    \/ TransformTest

SpecBuilder == InitBuilder /\ [][NextBuilder]_vars

----------------------------------------------------------------------------
(* create_sequences, lines 71-79 *)

\* the loop with bound len(data) - seq_length (one window too many)
RECURSIVE create_sequences_loop_long(_, _, _, _, _)
create_sequences_loop_long(d, L, i, accx, accy) ==
    IF i >= Len(d) - L
    THEN [xs |-> accx, ys |-> accy, raised |-> FALSE]
    ELSE IF i + L + 1 > Len(d)
         THEN [xs |-> accx, ys |-> accy, raised |-> TRUE]
         ELSE create_sequences_loop_long(d, L, i + 1,
                  Append(accx, SubSeq(d, i + 1, i + L)), Append(accy, d[i + L + 1]))

\* for i in range(len(data) - seq_length - 1): x = data[i:i+L]; y = data[i+L];
\* data[i+L] raises IndexError past the end (0-based i; TLA+ sequences are 1-based)
RECURSIVE create_sequences_loop(_, _, _, _, _)
create_sequences_loop(d, L, i, accx, accy) ==
    IF i >= Len(d) - L - 1
    THEN [xs |-> accx, ys |-> accy, raised |-> FALSE]
    ELSE IF i + L + 1 > Len(d)
         THEN [xs |-> accx, ys |-> accy, raised |-> TRUE]
         ELSE create_sequences_loop(d, L, i + 1,
                  Append(accx, SubSeq(d, i + 1, i + L)), Append(accy, d[i + L + 1]))

create_sequences(d, L) == create_sequences_loop(d, L, 0, << >>, << >>)

CallCreateSequences ==
    /\ pcS = "call"
    /\ LET r == create_sequences(data, seq_length)
       IN  /\ xs' = r.xs
           /\ ys' = r.ys
           /\ pcS' = IF r.raised THEN "error" ELSE "done"
    /\ UNCHANGED <<data, seq_length>>
    /\ UNCHANGED <<varsB, varsM, varsT>>

InitSeq ==
    /\ data \in SeqsUpTo(Values, MaxLen)
    /\ seq_length \in 0..MaxSeqLen
    /\ xs = << >>
    /\ ys = << >>
    /\ pcS = "call"
    /\ IdleB /\ IdleM /\ IdleT

NextSeq == CallCreateSequences

SpecSeq == InitSeq /\ [][NextSeq]_vars

----------------------------------------------------------------------------
(* CoronaVirusPredictor, lines 96-130.                                     *)
(* Tensor values are elements of the ring 0..Q-1 and every layer has one   *)
(* hidden unit (n_hidden = 512 in the script): a forward pass keeps its    *)
(* true arguments - parameters, batch, recurrent memory, mode and dropout  *)
(* mask - and its tensor shapes (time, column), not its real arithmetic.   *)

Q == 3
ModelSeqLen == 2      \* seq_len of the modelled network (5 in the script)
MaxCalls == 7         \* calls made on the model object
MaxData == 1          \* the data sets are Dataset(0) .. Dataset(MaxData)
n_layers == 2
RANDOM_SEED == 42
RngModulus == 16

\* torch's generator, abstracted to a full-period congruential generator
RngNext(r) == (5 * r + 3) % RngModulus
RngBit(r) == r \div (RngModulus \div 2)
RECURSIVE RngDraw(_, _)
RngDraw(r, k) == IF k = 0 THEN r ELSE RngDraw(RngNext(r), k - 1)

\* torch.zeros(n_layers, seq_len, n_hidden), for h and for c
ZeroState == [l \in 1..n_layers |-> [b \in 1..ModelSeqLen |-> 0]]

\* reset_hidden_state, lines 114-118
reset_hidden_state == <<ZeroState, ZeroState>>

\* one step of an LSTM cell: the new cell state and output come from the
\* input, the old output and the old cell state
LstmCell(p, x, h, c) ==
    LET c2 == (c + p.w * x + h + p.b) % Q
    IN  [h |-> (c2 + h) % Q, c |-> c2]

\* one column of a layer over the time axis, memory carried from step to step
RECURSIVE RunColumn(_, _, _, _, _, _)
RunColumn(p, col, i, h, c, out) ==
    IF i > Len(col)
    THEN [out |-> out, h |-> h, c |-> c]
    ELSE LET n == LstmCell(p, col[i], h, c)
         IN  RunColumn(p, col, i + 1, n.h, n.c, Append(out, n.h))

\* one LSTM layer on input[time][column], started from memory (hl, cl)
LstmLayer(p, input, hl, cl) ==
    LET T == Len(input)
        res == [b \in 1..ModelSeqLen |->
                  RunColumn(p, [i \in 1..T |-> input[i][b]], 1, hl[b], cl[b], << >>)]
    IN  [out |-> [i \in 1..T |-> [b \in 1..ModelSeqLen |-> res[b].out[i]]],
         h |-> [b \in 1..ModelSeqLen |-> res[b].h],
         c |-> [b \in 1..ModelSeqLen |-> res[b].c]]

\* dropout=0.5 between the layers: in training mode every element is zeroed
\* or scaled by 1 / (1 - 0.5), one generator draw per element; the identity
\* in evaluation mode
Dropout(x, train, r) ==
    IF train
    THEN [i \in 1..Len(x) |-> [b \in 1..ModelSeqLen |->
            (x[i][b] * 2 * RngBit(RngDraw(r, (i - 1) * ModelSeqLen + b))) % Q]]
    ELSE x

DropoutDraws(x, train) == IF train THEN Len(x) * ModelSeqLen ELSE 0

\* the layers of nn.LSTM from layer l on, dropout on the output of every
\* layer but the last
RECURSIVE LstmStack(_, _, _, _, _, _, _, _)
LstmStack(p, input, hid, l, train, r, hs, cs) ==
    IF l > n_layers
    THEN [out |-> input, h |-> hs, c |-> cs, rng |-> r]
    ELSE LET res == LstmLayer(p, input, hid[1][l], hid[2][l])
             last == (l = n_layers)
             nxt == IF last THEN res.out ELSE Dropout(res.out, train, r)
             r2 == IF last THEN r ELSE RngDraw(r, DropoutDraws(res.out, train))
         IN  LstmStack(p, nxt, hid, l + 1, train, r2,
                       [hs EXCEPT ![l] = res.h], [cs EXCEPT ![l] = res.c])

\* self.lstm(input, self.hidden), lines 123-126
lstm(p, input, hid, train, r) ==
    LstmStack(p, input, hid, 1, train, r, ZeroState, ZeroState)

\* lstm_out.view(self.seq_len, len(sequences), self.n_hidden)[-1], lines 127-128:
\* the (time, column) rows of lstm_out are re-read as (seq_len, len) rows and
\* the last block of len(sequences) rows is taken
last_time_step(out) ==
    LET T == Len(out)
    IN  [j \in 1..T |->
            LET row == (ModelSeqLen - 1) * T + (j - 1)
            IN  out[(row \div ModelSeqLen) + 1][(row % ModelSeqLen) + 1]]

\* self.linear, line 129
linear(p, x) == [j \in 1..Len(x) |-> (p.lw * x[j] + p.lb) % Q]

\* forward that applies dropout in every mode
forward_always_dropout(p, seqs, hid, train, r) ==
    LET res == lstm(p, seqs, hid, TRUE, r)
    IN  [y_pred |-> linear(p, last_time_step(res.out)),
         hidden |-> <<res.h, res.c>>, rng |-> res.rng]

\* forward, lines 122-130; sequences.view(len(sequences), seq_len, -1) keeps
\* sequences[i][b] in place: the window index becomes the time axis
forward(p, seqs, hid, train, r) ==
    LET res == lstm(p, seqs, hid, train, r)
    IN  [y_pred |-> linear(p, last_time_step(res.out)),
         hidden |-> <<res.h, res.c>>, rng |-> res.rng]

\* the data sets: windows over a series, as lines 83-84 build them
Ramp(k, n) == [i \in 1..n |-> ((i - 1) * k) % Q]
Dataset(k) == create_sequences(Ramp(k, ModelSeqLen + 3), ModelSeqLen)
Datasets == {Dataset(k) : k \in 0..MaxData}
IsZeroBatch(X) == \A i \in 1..Len(X) : \A b \in 1..Len(X[i]) : X[i][b] = 0

\* the parameters after construction (lines 166-171)
InitialParams == {[w |-> 1, b |-> bb, lw |-> 1, lb |-> 0] : bb \in {0, 1}}

----------------------------------------------------------------------------
(* The model as an object: construction, then calls in any order *)

\* model.reset_hidden_state()
ResetHiddenState ==
    /\ pc = "idle" /\ pcB = "idle" /\ pcS = "idle"
    /\ ncalls < MaxCalls
    /\ ncalls' = ncalls + 1
    /\ hidden' = reset_hidden_state
    /\ call' = [op |-> "reset", after_reset |-> FALSE, raised |-> FALSE]
    /\ UNCHANGED <<params, training, rng, sequences, y_pred, first_out, first_out_eval>>
    /\ UNCHANGED <<varsB, varsS, varsT>>

\* model(X): reading self.hidden raises AttributeError while it does not exist
Forward(X) ==
    /\ pc = "idle" /\ pcB = "idle" /\ pcS = "idle"
    /\ ncalls < MaxCalls
    /\ ncalls' = ncalls + 1
    /\ sequences' = X
    /\ IF hidden = << >>
       THEN /\ call' = [op |-> "forward", after_reset |-> FALSE, raised |-> TRUE]
            /\ UNCHANGED <<hidden, rng, y_pred, first_out, first_out_eval>>
       ELSE LET res == forward(params, X, hidden, training, rng)
                fresh == (call.op = "reset")
                zero == fresh /\ IsZeroBatch(X)
            IN  /\ hidden' = res.hidden
                /\ rng' = res.rng
                /\ y_pred' = res.y_pred
                /\ call' = [op |-> "forward", after_reset |-> fresh, raised |-> FALSE]
                /\ first_out' = IF zero THEN Recorded(first_out, res.y_pred)
                                ELSE first_out
                /\ first_out_eval' = IF zero /\ ~training
                                     THEN Recorded(first_out_eval, res.y_pred)
                                     ELSE first_out_eval
    /\ UNCHANGED <<params, training>>
    /\ UNCHANGED <<varsB, varsS, varsT>>

\* model.eval(), line 163
Eval ==
    /\ pc = "idle" /\ pcB = "idle" /\ pcS = "idle"
    /\ ncalls < MaxCalls
    /\ ncalls' = ncalls + 1
    /\ training' = FALSE
    /\ call' = [op |-> "eval", after_reset |-> FALSE, raised |-> FALSE]
    /\ UNCHANGED <<hidden, params, rng, sequences, y_pred, first_out, first_out_eval>>
    /\ UNCHANGED <<varsB, varsS, varsT>>

\* CoronaVirusPredictor.__init__, lines 98-109: self.hidden is not assigned
InitModel ==
    /\ hidden = << >>
    /\ params \in InitialParams
    /\ training = TRUE
    /\ rng = RANDOM_SEED % RngModulus
    /\ IdleCalls
    /\ IdleB /\ IdleS /\ IdleT

NextModel ==
    \/ ResetHiddenState
    \/ \E k \in 0..MaxData : Forward(Dataset(k).xs)
    \/ Eval

SpecModel == InitModel /\ [][NextModel]_vars

----------------------------------------------------------------------------
(* train_model, lines 134-163, one action per statement *)

MaxEpochs == 2        \* epoch counts 0..MaxEpochs are run beside the script's
NumEpochs == 60

\* line 143 assigns the literal NumEpochs; the loop is checked for the
\* smaller counts too
EpochCounts == (0..MaxEpochs) \cup {NumEpochs}

None == << >>
Some(x) == <<x>>

RECURSIVE SumSqFrom(_, _, _)
SumSqFrom(a, b, j) ==
    IF j > Len(a) THEN 0
    ELSE (a[j] - b[j]) * (a[j] - b[j]) + SumSqFrom(a, b, j + 1)

RECURSIVE SumDiffFrom(_, _, _)
SumDiffFrom(a, b, j) ==
    IF j > Len(a) THEN 0 ELSE (a[j] - b[j]) + SumDiffFrom(a, b, j + 1)

\* torch.nn.MSELoss(reduction='sum'), line 141: the value of the loss and,
\* for backward(), its derivative with respect to the output bias
loss_fn(pred, labels) ==
    [item |-> SumSqFrom(pred, labels, 1), dlb |-> 2 * SumDiffFrom(pred, labels, 1)]

Sign(x) == IF x > 0 THEN 1 ELSE IF x < 0 THEN -1 ELSE 0

\* Adam's update of the parameters from their .grad (lr = 1e-3): a move
\* against the sign of the gradient
adam_update(p, g) == [p EXCEPT !.lb = (p.lb - Sign(g)) % Q]

zeros(n) == [i \in 1..n |-> 0]

Logged(op) == Append(log, <<t, op, grad_enabled>>)

\* lines 141-145
TrainModelEntry ==
    /\ pc = "call"
    /\ \E n \in EpochCounts :
         /\ num_epochs' = n
         /\ train_hist' = zeros(n)
         /\ test_hist' = zeros(n)
    /\ optimiser' = [step |-> 0]
    /\ pc' = "loop"
    /\ UNCHANGED <<X_train, y_train, X_test, y_test,
                   arg_train_data, arg_train_labels, arg_test_data, arg_test_labels,
                   t, loss, y_test_pred, test_loss, grad, grad_enabled, params0, log>>
    /\ UNCHANGED <<varsB, varsS, varsM>>

\* the loop that runs one epoch more than num_epochs
LoopHeadOneMore ==
    /\ pc = "loop"
    /\ IF t + 1 <= num_epochs
       THEN /\ t' = t + 1
            /\ pc' = "reset"
       ELSE /\ pc' = "return"
            /\ UNCHANGED t
    /\ UNCHANGED <<X_train, y_train, X_test, y_test,
                   arg_train_data, arg_train_labels, arg_test_data, arg_test_labels,
                   num_epochs, train_hist, test_hist, loss, y_test_pred, test_loss,
                   grad, optimiser, grad_enabled, params0, log>>
    /\ UNCHANGED <<varsB, varsS, varsM>>

\* line 146: for t in range(num_epochs); t keeps its last value after the loop
LoopHead ==
    /\ pc = "loop"
    /\ IF t + 1 < num_epochs
       THEN /\ t' = t + 1
            /\ pc' = "reset"
       ELSE /\ pc' = "return"
            /\ UNCHANGED t
    /\ UNCHANGED <<X_train, y_train, X_test, y_test,
                   arg_train_data, arg_train_labels, arg_test_data, arg_test_labels,
                   num_epochs, train_hist, test_hist, loss, y_test_pred, test_loss,
                   grad, optimiser, grad_enabled, params0, log>>
    /\ UNCHANGED <<varsB, varsS, varsM>>

\* line 147
ResetStep ==
    /\ pc = "reset"
    /\ hidden' = reset_hidden_state
    /\ call' = [op |-> "reset", after_reset |-> FALSE, raised |-> FALSE]
    /\ log' = Logged("reset")
    /\ pc' = "fwd_train"
    /\ UNCHANGED <<params, training, rng, sequences, y_pred, ncalls, first_out, first_out_eval>>
    /\ UNCHANGED <<X_train, y_train, X_test, y_test,
                   arg_train_data, arg_train_labels, arg_test_data, arg_test_labels,
                   num_epochs, train_hist, test_hist, t, loss, y_test_pred, test_loss,
                   grad, optimiser, grad_enabled, params0>>
    /\ UNCHANGED <<varsB, varsS>>

\* line 148: y_pred = model(X_train), the global X_train
ForwardTrain ==
    /\ pc = "fwd_train"
    /\ LET res == forward(params, X_train, hidden, training, rng)
       IN  /\ sequences' = X_train
           /\ hidden' = res.hidden
           /\ rng' = res.rng
           /\ y_pred' = res.y_pred
    /\ call' = [op |-> "forward", after_reset |-> (call.op = "reset"), raised |-> FALSE]
    /\ log' = Logged("forward_train")
    /\ pc' = "loss_train"
    /\ UNCHANGED <<params, training, ncalls, first_out, first_out_eval>>
    /\ UNCHANGED <<X_train, y_train, X_test, y_test,
                   arg_train_data, arg_train_labels, arg_test_data, arg_test_labels,
                   num_epochs, train_hist, test_hist, t, loss, y_test_pred, test_loss,
                   grad, optimiser, grad_enabled, params0>>
    /\ UNCHANGED <<varsB, varsS>>

\* line 149: loss = loss_fn(y_pred.float(), y_train), the global y_train
LossTrain ==
    /\ pc = "loss_train"
    /\ loss' = loss_fn(y_pred, y_train)
    /\ log' = Logged("loss_train")
    /\ pc' = "branch"
    /\ UNCHANGED <<X_train, y_train, X_test, y_test,
                   arg_train_data, arg_train_labels, arg_test_data, arg_test_labels,
                   num_epochs, train_hist, test_hist, t, y_test_pred, test_loss,
                   grad, optimiser, grad_enabled, params0>>
    /\ UNCHANGED <<varsB, varsS, varsM>>

\* lines 150-151 and 157-158: the test on the argument test_data; entering
\* "with torch.no_grad()"; the print of the other branch changes nothing
Branch ==
    /\ pc = "branch"
    /\ IF arg_test_data # None
       THEN /\ grad_enabled' = FALSE
            /\ pc' = "fwd_test"
       ELSE /\ pc' = "rec_train"
            /\ UNCHANGED grad_enabled
    /\ UNCHANGED <<X_train, y_train, X_test, y_test,
                   arg_train_data, arg_train_labels, arg_test_data, arg_test_labels,
                   num_epochs, train_hist, test_hist, t, loss, y_test_pred, test_loss,
                   grad, optimiser, params0, log>>
    /\ UNCHANGED <<varsB, varsS, varsM>>

\* line 152: y_test_pred = model(X_test), the global X_test, on the memory
\* the training pass left
ForwardTest ==
    /\ pc = "fwd_test"
    /\ LET res == forward(params, X_test, hidden, training, rng)
       IN  /\ sequences' = X_test
           /\ hidden' = res.hidden
           /\ rng' = res.rng
           /\ y_test_pred' = res.y_pred
    /\ call' = [op |-> "forward", after_reset |-> (call.op = "reset"), raised |-> FALSE]
    /\ log' = Logged("forward_test")
    /\ pc' = "loss_test"
    /\ UNCHANGED <<params, training, y_pred, ncalls, first_out, first_out_eval>>
    /\ UNCHANGED <<X_train, y_train, X_test, y_test,
                   arg_train_data, arg_train_labels, arg_test_data, arg_test_labels,
                   num_epochs, train_hist, test_hist, t, loss, test_loss,
                   grad, optimiser, grad_enabled, params0>>
    /\ UNCHANGED <<varsB, varsS>>

\* line 153, the global y_test, and the end of the with block
LossTest ==
    /\ pc = "loss_test"
    /\ test_loss' = loss_fn(y_test_pred, y_test)
    /\ log' = Logged("loss_test")
    /\ grad_enabled' = TRUE
    /\ pc' = "rec_test"
    /\ UNCHANGED <<X_train, y_train, X_test, y_test,
                   arg_train_data, arg_train_labels, arg_test_data, arg_test_labels,
                   num_epochs, train_hist, test_hist, t, loss, y_test_pred,
                   grad, optimiser, params0>>
    /\ UNCHANGED <<varsB, varsS, varsM>>

\* lines 154-156: test_hist[t] = test_loss.item(), and the print
RecordTest ==
    /\ pc = "rec_test"
    /\ test_hist' = [test_hist EXCEPT ![t + 1] = test_loss.item]
    /\ log' = Logged("record_test")
    /\ pc' = "rec_train"
    /\ UNCHANGED <<X_train, y_train, X_test, y_test,
                   arg_train_data, arg_train_labels, arg_test_data, arg_test_labels,
                   num_epochs, train_hist, t, loss, y_test_pred, test_loss,
                   grad, optimiser, grad_enabled, params0>>
    /\ UNCHANGED <<varsB, varsS, varsM>>

\* line 159: train_hist[t] = loss.item()
RecordTrain ==
    /\ pc = "rec_train"
    /\ train_hist' = [train_hist EXCEPT ![t + 1] = loss.item]
    /\ log' = Logged("record_train")
    /\ pc' = "zero_grad"
    /\ UNCHANGED <<X_train, y_train, X_test, y_test,
                   arg_train_data, arg_train_labels, arg_test_data, arg_test_labels,
                   num_epochs, test_hist, t, loss, y_test_pred, test_loss,
                   grad, optimiser, grad_enabled, params0>>
    /\ UNCHANGED <<varsB, varsS, varsM>>

\* line 160
ZeroGrad ==
    /\ pc = "zero_grad"
    /\ grad' = 0
    /\ log' = Logged("zero_grad")
    /\ pc' = "backward"
    /\ UNCHANGED <<X_train, y_train, X_test, y_test,
                   arg_train_data, arg_train_labels, arg_test_data, arg_test_labels,
                   num_epochs, train_hist, test_hist, t, loss, y_test_pred, test_loss,
                   optimiser, grad_enabled, params0>>
    /\ UNCHANGED <<varsB, varsS, varsM>>

\* backward() that ends the epoch, the optimiser step left out
BackwardNoStep ==
    /\ pc = "backward"
    /\ grad' = grad + loss.dlb
    /\ log' = Logged("backward")
    /\ pc' = "loop"
    /\ UNCHANGED <<X_train, y_train, X_test, y_test,
                   arg_train_data, arg_train_labels, arg_test_data, arg_test_labels,
                   num_epochs, train_hist, test_hist, t, loss, y_test_pred, test_loss,
                   optimiser, grad_enabled, params0>>
    /\ UNCHANGED <<varsB, varsS, varsM>>

\* line 161: loss.backward() adds the gradient of the training loss to .grad
Backward ==
    /\ pc = "backward"
    /\ grad' = grad + loss.dlb
    /\ log' = Logged("backward")
    /\ pc' = "step"
    /\ UNCHANGED <<X_train, y_train, X_test, y_test,
                   arg_train_data, arg_train_labels, arg_test_data, arg_test_labels,
                   num_epochs, train_hist, test_hist, t, loss, y_test_pred, test_loss,
                   optimiser, grad_enabled, params0>>
    /\ UNCHANGED <<varsB, varsS, varsM>>

\* line 162: optimiser.step()
OptimiserStep ==
    /\ pc = "step"
    /\ params' = adam_update(params, grad)
    /\ optimiser' = [step |-> optimiser.step + 1]
    /\ log' = Logged("step")
    /\ pc' = "loop"
    /\ UNCHANGED <<hidden, training, rng, sequences, y_pred, call, ncalls,
                   first_out, first_out_eval>>
    /\ UNCHANGED <<X_train, y_train, X_test, y_test,
                   arg_train_data, arg_train_labels, arg_test_data, arg_test_labels,
                   num_epochs, train_hist, test_hist, t, loss, y_test_pred, test_loss,
                   grad, grad_enabled, params0>>
    /\ UNCHANGED <<varsB, varsS>>

\* line 163: return model.eval(), train_hist, test_hist
Return ==
    /\ pc = "return"
    /\ training' = FALSE
    /\ call' = [op |-> "eval", after_reset |-> FALSE, raised |-> FALSE]
    /\ pc' = "done"
    /\ UNCHANGED <<hidden, params, rng, sequences, y_pred, ncalls, first_out, first_out_eval>>
    /\ UNCHANGED varsT_but_pc
    /\ UNCHANGED <<varsB, varsS>>

\* the model as constructed at lines 166-171 and a call of train_model: the
\* globals of lines 83-88 and the four batch arguments (None: no evaluation batch)
InitTrain ==
    /\ hidden = << >>
    /\ params \in InitialParams
    /\ training = TRUE
    /\ rng = RANDOM_SEED % RngModulus
    /\ IdleCalls
    /\ \E d \in Datasets : X_train = d.xs /\ y_train = d.ys
    /\ \E d \in Datasets : X_test = d.xs /\ y_test = d.ys
    /\ \E d \in Datasets : arg_train_data = d.xs /\ arg_train_labels = d.ys
    /\ \/ arg_test_data = None /\ arg_test_labels = None
       \/ \E d \in Datasets : arg_test_data = Some(d.xs) /\ arg_test_labels = Some(d.ys)
    /\ num_epochs = 0 /\ train_hist = << >> /\ test_hist = << >> /\ t = -1
    /\ loss = << >> /\ y_test_pred = << >> /\ test_loss = << >>
    /\ grad = 0 /\ optimiser = << >> /\ grad_enabled = TRUE
    /\ params0 = params
    /\ log = << >>
    /\ pc = "call"
    /\ IdleB /\ IdleS

NextTrain ==
    \/ TrainModelEntry
    \/ LoopHead
    \/ ResetStep
    \/ ForwardTrain
    \/ LossTrain
    \/ Branch
    \/ ForwardTest
    \/ LossTest
    \/ RecordTest
    \/ RecordTrain
    \/ ZeroGrad
    \/ Backward
    \/ OptimiserStep
    \/ Return

SpecTrain == InitTrain /\ [][NextTrain]_vars

----------------------------------------------------------------------------
(* Claims about the dataset builder *)

\* C1: for a series of length N and window length L, create_sequences returns
\* without error exactly max(N - L - 1, 0) pairs, in order; pair i has context
\* data[i .. i+L) and target data[i+L]; N <= L + 1 yields zero pairs.
C1_Windows ==
    /\ pcS # "error"
    /\ pcS = "done" =>
         LET N == Len(data)
             L == seq_length
             n == Max2(N - L - 1, 0)
         IN  /\ Len(xs) = n
             /\ Len(ys) = n
             /\ \A i \in 0..(n - 1) :
                   /\ Len(xs[i + 1]) = L
                   /\ \A j \in 1..L : xs[i + 1][j] = data[i + j]
                   /\ ys[i + 1] = data[i + L + 1]

\* C1 witness: a call that returned several windows of positive length
C1_Witness ==
    /\ pcS = "done"
    /\ seq_length >= 2
    /\ Len(xs) >= 2
    /\ xs[1] # xs[2]

\* C1 second case: a series no longer than L + 1 gives zero pairs
C1_WitnessShort ==
    /\ pcS = "done"
    /\ Len(data) >= 1
    /\ Len(data) <= seq_length + 1
    /\ xs = << >>

\* C2: after differencing a non-empty cumulative series c, the daily series d
\* has the length of c, d[0] = c[0] and d[i] = c[i] - c[i-1] for i > 0, a
\* negative difference included.
C2_Differencing ==
    (pcB \notin {"idle", "diff", "error"}) =>
        /\ Len(daily_cases) = Len(cumulative)
        /\ daily_cases[1] = cumulative[1]
        /\ \A i \in 2..Len(cumulative) :
              daily_cases[i] = cumulative[i] - cumulative[i - 1]

\* C2 witness: a differenced series with a non-zero seed and a negative difference
C2_Witness ==
    /\ pcB = "split"
    /\ cumulative[1] > 0
    /\ \E i \in 2..Len(daily_cases) : daily_cases[i] < 0

RECURSIVE PrefixSum(_, _)
PrefixSum(s, i) == IF i = 0 THEN 0 ELSE PrefixSum(s, i - 1) + s[i]

\* C6: the cumulative sum of the daily series reproduces the cumulative series
\* element for element, also when the cumulative series is not monotone.
C6_RoundTrip ==
    (pcB \notin {"idle", "diff", "error"}) =>
        /\ Len(daily_cases) = Len(cumulative)
        /\ \A i \in 1..Len(cumulative) : PrefixSum(daily_cases, i) = cumulative[i]

\* C6 witness: a differenced series whose cumulative series goes down, then up
C6_Witness ==
    /\ pcB = "done"
    /\ Len(cumulative) >= 3
    /\ \E i \in 2..(Len(cumulative) - 1) :
          /\ cumulative[i] < cumulative[i - 1]
          /\ cumulative[i + 1] > cumulative[i]

\* the training split before scaling, as the claim speaks of it
TrainRaw == SubSeq(daily_cases, 1, Len(daily_cases) - test_data_size)
TestRaw == SubSeq(daily_cases, Len(daily_cases) - test_data_size + 1, Len(daily_cases))
TrainLo == SeqMin(TrainRaw)
TrainHi == SeqMax(TrainRaw)

\* C5 as stated: every training value is mapped into [0,1], the training
\* minimum to exactly 0 and the training maximum to exactly 1, also when all
\* training values are equal.
C5_AsStated ==
    pcB = "done" =>
        \A i \in 1..Len(TrainRaw) :
            /\ RatLeq(RatOfInt(0), train_data[i])
            /\ RatLeq(train_data[i], RatOfInt(1))
            /\ TrainRaw[i] = TrainLo => RatEq(train_data[i], RatOfInt(0))
            /\ TrainRaw[i] = TrainHi => RatEq(train_data[i], RatOfInt(1))

\* C5 amended: every training value is mapped into [0,1] and the minimum to 0;
\* the maximum is mapped to 1 when min < max, and to 0 when all training
\* values are equal (the zero range is replaced by 1); the scaler holds the
\* training split's min and max, and the test split is mapped with them.
C5_Scaler ==
    pcB = "done" =>
        LET r == IF TrainHi = TrainLo THEN 1 ELSE TrainHi - TrainLo
        IN  /\ scaler.data_min = TrainLo
            /\ scaler.data_max = TrainHi
            /\ Len(train_data) = Len(TrainRaw)
            /\ Len(test_data) = Len(TestRaw)
            /\ \A i \in 1..Len(TrainRaw) :
                  /\ RatLeq(RatOfInt(0), train_data[i])
                  /\ RatLeq(train_data[i], RatOfInt(1))
                  /\ TrainRaw[i] = TrainLo => RatEq(train_data[i], RatOfInt(0))
                  /\ (TrainRaw[i] = TrainHi /\ TrainLo < TrainHi)
                        => RatEq(train_data[i], RatOfInt(1))
                  /\ TrainLo = TrainHi => RatEq(train_data[i], RatOfInt(0))
            /\ \A j \in 1..Len(TestRaw) :
                  RatEq(test_data[j], Rat(TestRaw[j] - TrainLo, r))

\* C5 witness: a fitted scaler with min < max and a test value mapped above 1
C5_Witness ==
    /\ pcB = "done"
    /\ TrainLo < TrainHi
    /\ \E j \in 1..Len(test_data) : ~RatLeq(test_data[j], RatOfInt(1))
    /\ \E j \in 1..Len(test_data) : ~RatLeq(RatOfInt(0), test_data[j])

----------------------------------------------------------------------------
(* Claims about the training loop *)

EvalPresent == arg_test_data # None

\* C3 as stated: the training loss of every epoch is the loss of the
\* predictions on the training batch passed to train_model against the labels
\* passed to it, and the evaluation loss is computed on the evaluation batch
\* and labels passed to it.
C3_AsStated ==
    /\ pc = "loss_train" => sequences = arg_train_data
    /\ pc = "branch" => loss.item = SumSqFrom(y_pred, arg_train_labels, 1)
    /\ pc = "loss_test" => sequences = arg_test_data[1]
    /\ pc = "rec_test" => test_loss.item = SumSqFrom(y_test_pred, arg_test_labels[1], 1)

CountOp(op) == Cardinality({i \in 1..Len(log) : log[i][2] = op})

\* the statements of train_model in program order
PcRank ==
    [l \in {"call", "loop", "reset", "fwd_train", "loss_train", "branch", "fwd_test",
            "loss_test", "rec_test", "rec_train", "zero_grad", "backward", "step",
            "return", "done"} |->
        CASE l = "call" -> 0 [] l = "loop" -> 1 [] l = "reset" -> 2
          [] l = "fwd_train" -> 3 [] l = "loss_train" -> 4 [] l = "branch" -> 5
          [] l = "fwd_test" -> 6 [] l = "loss_test" -> 7 [] l = "rec_test" -> 8
          [] l = "rec_train" -> 9 [] l = "zero_grad" -> 10 [] l = "backward" -> 11
          [] l = "step" -> 12 [] l = "return" -> 13 [] l = "done" -> 14]

\* optimiser steps taken, then the position in the epoch
Progress == <<IF pc = "call" THEN 0 ELSE optimiser.step, PcRank[pc]>>
Advances(a, b) == a[1] < b[1] \/ (a[1] = b[1] /\ a[2] < b[2])

C4_Final ==
    /\ pc \notin {"idle", "call"} => (t < num_epochs /\ optimiser.step <= num_epochs)
    /\ pc = "done" =>
         /\ CountOp("reset") = num_epochs
         /\ CountOp("step") = num_epochs
         /\ optimiser.step = num_epochs
         /\ t = num_epochs - 1
         /\ Len(train_hist) = num_epochs
         /\ Len(test_hist) = num_epochs
         /\ num_epochs = 0 =>
              (params = params0 /\ train_hist = << >> /\ test_hist = << >>)

\* C4: the loop terminates after exactly num_epochs epochs and num_epochs
\* optimiser steps, with loss histories of num_epochs entries each; after 0
\* epochs the parameters are those passed in and both histories are empty.
\* Termination: every step of train_model advances it, the count of optimiser
\* steps never passes num_epochs, and the loop index never passes num_epochs - 1.
C4_Epochs ==
    /\ []C4_Final
    /\ [][pc # "idle" => Advances(Progress, Progress')]_vars

\* C4 witness: the script's 60 epochs have run
C4_Witness ==
    /\ pc = "done"
    /\ num_epochs = NumEpochs
    /\ optimiser.step = NumEpochs
    /\ Len(train_hist) = NumEpochs

\* C4 second case: a run of 0 epochs has returned
C4_WitnessZero ==
    /\ pc = "done"
    /\ num_epochs = 0
    /\ train_hist = << >>

\* C7 as stated: every forward pass of the loop starts from cleared memory,
\* reset_hidden_state having been called since the previous forward pass.
C7_AsStated ==
    pc \in {"fwd_train", "fwd_test"} =>
        /\ call.op = "reset"
        /\ hidden = <<ZeroState, ZeroState>>

\* the steps of one epoch in the order the claim gives them, with the state
\* of gradient tracking at each
EpochSteps ==
    <<  <<"reset", TRUE>>, <<"forward_train", TRUE>>, <<"loss_train", TRUE>> >>
    \o (IF EvalPresent
        THEN << <<"forward_test", FALSE>>, <<"loss_test", FALSE>>, <<"record_test", TRUE>> >>
        ELSE << >>)
    \o << <<"record_train", TRUE>>, <<"zero_grad", TRUE>>, <<"backward", TRUE>>, <<"step", TRUE>> >>

ExpectedAt(i) ==
    LET k == Len(EpochSteps)
        s == EpochSteps[((i - 1) % k) + 1]
    IN  <<(i - 1) \div k, s[1], s[2]>>

\* C8: in every epoch the steps run in this order, each once: reset, forward
\* on the training batch, training loss, (with an evaluation batch) forward on
\* it without gradient tracking, evaluation loss, its record, then the record
\* of the training loss, zero_grad, backward, optimiser step; an epoch starts
\* only after the optimiser step of the one before.
C8_Order ==
    pc # "idle" =>
        /\ \A i \in 1..Len(log) : log[i] = ExpectedAt(i)
        /\ Len(log) <= Len(EpochSteps) * num_epochs
        /\ pc = "loop" => (Len(log) = Len(EpochSteps) * (t + 1) /\ optimiser.step = t + 1)
        /\ pc = "done" => Len(log) = Len(EpochSteps) * num_epochs

\* C8 witness: two epochs with an evaluation batch have run to the end
C8_Witness ==
    /\ pc = "done"
    /\ EvalPresent
    /\ num_epochs = 2
    /\ Len(log) = 20

----------------------------------------------------------------------------
(* Claims about the model object *)

\* C9 as stated: from construction on the memory is cleared or populated,
\* never absent, and forward is defined in every state.
C9_AsStated ==
    pc = "idle" /\ pcB = "idle" /\ pcS = "idle" =>
        /\ hidden # << >>
        /\ ~call.raised

ZeroAfterReset ==
    /\ pc = "idle" /\ pcB = "idle" /\ pcS = "idle"
    /\ call.op = "forward"
    /\ call.after_reset
    /\ IsZeroBatch(sequences)

\* C10 as stated: any two executions of reset_hidden_state followed at once
\* by forward on the same all-zero batch return the same output.
C10_AsStated ==
    ZeroAfterReset => y_pred = first_out.y

\* C10 amended: in evaluation mode any two executions of reset_hidden_state
\* followed at once by forward on the same all-zero batch return the same
\* output.
C10_EvalMode ==
    (ZeroAfterReset /\ ~training) => y_pred = first_out_eval.y

\* C10 witness: a second such execution in evaluation mode, after a call in
\* training mode gave another output
C10_Witness ==
    /\ ZeroAfterReset
    /\ ~training
    /\ first_out_eval.n = 2
    /\ first_out.n = 2
    /\ first_out.y # first_out_eval.y


=============================================================================
